---- MODULE Spec2Model ----
(***************************************************************************)
(* STR bulk-loaded R-tree of generation/r_tree/generation.py:              *)
(* Node, RTree.build, RTree._bulk_load and RTree.preorder.                 *)
(*                                                                         *)
(* A rectangle is the tuple <<xmin, xmax, ymin, ymax>>.  A Node is a       *)
(* record [id, is_leaf, entries, children, mbr]; id stands for the         *)
(* identity of the Python object (two nodes with equal contents are still  *)
(* two nodes).  Python's None is the empty tuple; an optional Node (the    *)
(* root) is None or the one-element tuple holding the node.                *)
(***************************************************************************)
EXTENDS Integers, Sequences, FiniteSets, TLC

\* Bounds of the explored inputs.
MaxM == 4          \* max_entries ranges over -1 .. MaxM
MaxN == 10         \* number of input rectangles ranges over 0 .. MaxN
MaxSeed == 2       \* jitter patterns per axis
MaxLoads == 5      \* cap on _bulk_load calls of one build (M = 1 never stops)
CellSize == 3      \* grid cell width/height of the generated rectangles
RectSize == 2      \* width/height of a generated rectangle

VARIABLES M, root, pc, rectangles, nodes, loads, nextId, err, traversal, walked,
          sorted_list, slices, chunks

\* sorted_list, slices and chunks are the locals of the last _bulk_load call
\* (chunks: every chunk it cut, in the order the nodes were appended).
vars == <<M, root, pc, rectangles, nodes, loads, nextId, err, traversal, walked,
          sorted_list, slices, chunks>>

locals == <<sorted_list, slices, chunks>>

None == <<>>

Min2(a, b) == IF a <= b THEN a ELSE b

\* A list given index by index, as a tuple.
AsList(f) == SubSeq(f, 1, Len(f))

\* math.ceil(a / b) for b # 0 (Python true division followed by ceil).
CeilDiv(a, b) == IF b > 0 THEN -((-a) \div b) ELSE -(a \div (-b))

\* math.ceil(math.sqrt(n)) for n >= 0.
CeilSqrt(n) == CHOOSE s \in 0..n : s * s >= n /\ \A t \in 0..n : t * t >= n => s <= t

\* min(r[k] ...) / max(r[k] ...) over a non-empty list of rectangles.
MinOf(rects, k) == CHOOSE v \in {rects[i][k] : i \in DOMAIN rects} :
                      \A i \in DOMAIN rects : v <= rects[i][k]

MaxOf(rects, k) == CHOOSE v \in {rects[i][k] : i \in DOMAIN rects} :
                      \A i \in DOMAIN rects : v >= rects[i][k]

\* Mutant: ymax taken over the ymin column (r[2] for r[3]).
ComputeMbr_WrongColumn(rects) ==
    <<MinOf(rects, 1), MaxOf(rects, 2), MinOf(rects, 3), MaxOf(rects, 3)>>

\* Node._compute_mbr on the rectangles of the entries / the children's MBRs.
ComputeMbr(rects) == <<MinOf(rects, 1), MaxOf(rects, 2), MinOf(rects, 3), MaxOf(rects, 4)>>

\* Mutant: an internal node over a single child is not built, the child is
\* handed up instead.
Node_ReuseOnlyChild(id, items, leaf) ==
    IF ~leaf /\ Len(items) = 1 THEN items[1]
    ELSE [id |-> id,
          is_leaf |-> leaf,
          entries |-> IF leaf THEN items ELSE None,
          children |-> IF leaf THEN None ELSE items,
          mbr |-> ComputeMbr(IF leaf THEN items ELSE [i \in DOMAIN items |-> items[i].mbr])]

\* Node(entries=items) when leaf, Node(children=items) otherwise.
Node(id, items, leaf) ==
    [id |-> id,
     is_leaf |-> leaf,
     entries |-> IF leaf THEN items ELSE None,
     children |-> IF leaf THEN None ELSE items,
     mbr |-> ComputeMbr(IF leaf THEN items ELSE [i \in DOMAIN items |-> items[i].mbr])]

\* The entries of a leaf or the children of an internal node.
Items(n) == IF n.is_leaf THEN n.entries ELSE n.children

\* Sort key of sorted(): the centre (lo + hi) / 2 of the extent on one axis
\* (axis 1 = x, axis 3 = y).  Twice the centre is kept, which orders alike.
Key(item, axis, leaf) == LET r == IF leaf THEN item ELSE item.mbr IN r[axis] + r[axis + 1]

\* sorted(s, key=...): Python's sort is stable, so the element at index i
\* lands after every element with a smaller key and after the elements
\* with an equal key that precede it in s.
Rank(s, i, axis, leaf) ==
    Cardinality({j \in DOMAIN s :
                    \/ Key(s[j], axis, leaf) < Key(s[i], axis, leaf)
                    \/ (Key(s[j], axis, leaf) = Key(s[i], axis, leaf) /\ j <= i)})

Sorted(s, axis, leaf) ==
    AsList([p \in DOMAIN s |-> s[CHOOSE i \in DOMAIN s : Rank(s, i, axis, leaf) = p]])

\* s[lo:hi] of Python for 0 <= lo, 0 <= hi (clamped to the list).
Slice(s, lo, hi) == LET h == Min2(hi, Len(s)) IN IF lo >= h THEN <<>> ELSE SubSeq(s, lo + 1, h)

\* Mutant: every slice stops one item early (… :(i+1)*slice_size - 1).
Slices_OneShort(sorted, S, slice_size) ==
    AsList([i \in 1..S |-> Slice(sorted, (i - 1) * slice_size, i * slice_size - 1)])

\* slices = [sorted_list[i*slice_size:(i+1)*slice_size] for i in range(S)]
Slices(sorted, S, slice_size) ==
    AsList([i \in 1..S |-> Slice(sorted, (i - 1) * slice_size, i * slice_size)])

\* Mutant: the step of the range is lost (for i in range(0, len(sl_sorted))).
Chunks_NoStep(sl_sorted, m) ==
    AsList([k \in 1..Len(sl_sorted) |-> Slice(sl_sorted, k - 1, k - 1 + m)])

\* for i in range(0, len(sl_sorted), M): chunk = sl_sorted[i:i+M]     (M >= 1)
Chunks(sl_sorted, m) ==
    AsList([k \in 1..CeilDiv(Len(sl_sorted), m) |-> Slice(sl_sorted, (k - 1) * m, k * m)])

\* for sl in slices: the chunks of sl sorted by y-centre, slice after slice.
RECURSIVE AllChunks(_, _, _, _)
AllChunks(sls, i, m, leaf) ==
    IF i > Len(sls) THEN <<>>
    ELSE Chunks(Sorted(sls[i], 3, leaf), m) \o AllChunks(sls, i + 1, m, leaf)

\* The exception _bulk_load raises on N entries with max_entries m ("" = none).
BulkLoadError(N, m) ==
    IF m = 0 THEN "ZeroDivisionError"
    ELSE IF CeilDiv(N, m) < 0 THEN "ValueError"
    ELSE IF CeilSqrt(CeilDiv(N, m)) = 0 THEN "ZeroDivisionError"
    ELSE ""

\* _bulk_load(entries, is_leaf) when it raises nothing: its locals, the
\* nodes it returns (bound to nodes by both callers) and the ids it uses up.
BulkLoad(entries, leaf) ==
    LET N == Len(entries)
        node_count == CeilDiv(N, M)
        S == CeilSqrt(node_count)
        slice_size == CeilDiv(N, S)
    IN /\ sorted_list' = Sorted(entries, 1, leaf)
       /\ slices' = Slices(sorted_list', S, slice_size)
       /\ chunks' = AllChunks(slices', 1, M, leaf)
       /\ nodes' = AsList([k \in DOMAIN chunks' |-> Node(nextId + k - 1, chunks'[k], leaf)])
       /\ nextId' = nextId + Len(chunks')

\* Mutant: the loop lets one node too many through (len(nodes) > self.M + 1).
LoopCond_OffByOne(ns, m) == Len(ns) > m + 1

\* Mutant: the loop runs until a single node is left (len(nodes) > 1).
LoopCond_UntilOne(ns, m) == Len(ns) > 1

\* while len(nodes) > self.M
LoopCond(ns, m) == Len(ns) > m

\* Mutant: the remaining nodes are always wrapped, a single one too.
RootOf_AlwaysWrap(ns, id) == Node(id, ns, FALSE)

\* nodes[0] if len(nodes) == 1 else Node(children=nodes)
RootOf(ns, id) == IF Len(ns) = 1 THEN ns[1] ELSE Node(id, ns, FALSE)

\* RTree.preorder: _traverse(node) yields node, then its children in order.
RECURSIVE Traverse(_)
RECURSIVE TraverseAll(_)
Traverse(node) == <<node>> \o (IF node.is_leaf THEN <<>> ELSE TraverseAll(node.children))

TraverseAll(ns) == IF Len(ns) = 0 THEN <<>> ELSE Traverse(ns[1]) \o TraverseAll(Tail(ns))

Preorder(r) == IF r = None THEN <<>> ELSE Traverse(r[1])

\* generate_random_balanced_rectangles: rectangle i of n on a rows x cols
\* grid; the random jitter of its centre is the pattern chosen by (sx, sy).
GenRect(i, n, sx, sy) ==
    LET rows == CeilSqrt(n)
        cols == CeilDiv(n, rows)
        r == i \div cols
        c == i % cols
        xmin == c * CellSize + ((i * sx) % CellSize)
        ymin == r * CellSize + ((i * sy + sx) % CellSize)
    IN <<xmin, xmin + RectSize, ymin, ymin + RectSize>>

GenRects(n, sx, sy) == [k \in 1..n |-> GenRect(k - 1, n, sx, sy)]

----------------------------------------------------------------------------
\* RTree(max_entries=m): M is set, root is None, nothing else exists yet.
Init ==
    /\ M \in (-1)..MaxM
    /\ root = None
    /\ pc = "idle"
    /\ rectangles = <<>>
    /\ nodes = <<>>
    /\ loads = 0
    /\ nextId = 1
    /\ err = ""
    /\ traversal = <<>>
    /\ walked = FALSE
    /\ sorted_list = <<>>
    /\ slices = <<>>
    /\ chunks = <<>>

\* tree.build(rectangles) is entered with a generated list.
Build ==
    /\ pc = "idle"
    /\ \E n \in 0..MaxN, sx \in 0..MaxSeed, sy \in 0..MaxSeed :
          rectangles' = GenRects(n, sx, sy)
    /\ pc' = "called"
    /\ UNCHANGED <<M, root, nodes, loads, nextId, err, traversal, walked, locals>>

\* leaf_nodes = self._bulk_load(rectangles, is_leaf=True); nodes = leaf_nodes
BuildLeaves ==
    /\ pc = "called"
    /\ LET e == BulkLoadError(Len(rectangles), M) IN
          IF e # ""
          THEN /\ pc' = "error"
               /\ err' = e
               /\ UNCHANGED <<nodes, loads, nextId, locals>>
          ELSE /\ BulkLoad(rectangles, TRUE)
               /\ loads' = loads + 1
               /\ pc' = "loop"
               /\ err' = err
    /\ UNCHANGED <<M, root, rectangles, traversal, walked>>

\* One pass of the while loop: nodes = self._bulk_load(nodes, is_leaf=False)
BuildLevel ==
    /\ pc = "loop"
    /\ LoopCond(nodes, M)
    /\ loads < MaxLoads
    /\ LET e == BulkLoadError(Len(nodes), M) IN
          IF e # ""
          THEN /\ pc' = "error"
               /\ err' = e
               /\ UNCHANGED <<nodes, loads, nextId, locals>>
          ELSE /\ BulkLoad(nodes, FALSE)
               /\ loads' = loads + 1
               /\ pc' = "loop"
               /\ err' = err
    /\ UNCHANGED <<M, root, rectangles, traversal, walked>>

\* Loop exit: self.root = nodes[0] if len(nodes) == 1 else Node(children=nodes)
SetRoot ==
    /\ pc = "loop"
    /\ ~LoopCond(nodes, M)
    /\ IF Len(nodes) = 0
       THEN /\ pc' = "error"
            /\ err' = "ValueError"
            /\ UNCHANGED <<root, nextId>>
       ELSE /\ root' = <<RootOf(nodes, nextId)>>
            /\ nextId' = IF Len(nodes) = 1 THEN nextId ELSE nextId + 1
            /\ pc' = "done"
            /\ err' = err
    /\ UNCHANGED <<M, rectangles, nodes, loads, traversal, walked, locals>>

\* traversal = [node for node in tree.preorder()], after build returned or raised.
Walk ==
    /\ pc \in {"done", "error"}
    /\ ~walked
    /\ traversal' = Preorder(root)
    /\ walked' = TRUE
    /\ UNCHANGED <<M, root, pc, rectangles, nodes, loads, nextId, err, locals>>

Next == Build \/ BuildLeaves \/ BuildLevel \/ SetRoot \/ Walk

Spec == Init /\ [][Next]_vars

\* build is straight-line synchronous code: once entered it keeps running.
FairSpec == Spec /\ WF_vars(BuildLeaves) /\ WF_vars(BuildLevel) /\ WF_vars(SetRoot)

----------------------------------------------------------------------------
\* Auxiliary operators of the properties.

\* The nodes of the subtree below (and including) n.
RECURSIVE Subtree(_)
Subtree(n) ==
    {n} \cup (IF n.is_leaf THEN {} ELSE UNION {Subtree(n.children[i]) : i \in DOMAIN n.children})

\* Every node that exists: those of the current level, the root, and below.
LiveNodes ==
    UNION {Subtree(nodes[i]) : i \in DOMAIN nodes} \cup UNION {Subtree(root[i]) : i \in DOMAIN root}

\* Number of node levels from n down to the deepest / the shallowest leaf.
RECURSIVE Height(_)
Height(n) ==
    IF n.is_leaf THEN 1
    ELSE 1 + (CHOOSE h \in {Height(n.children[i]) : i \in DOMAIN n.children} :
                 \A i \in DOMAIN n.children : h >= Height(n.children[i]))

RECURSIVE MinHeight(_)
MinHeight(n) ==
    IF n.is_leaf THEN 1
    ELSE 1 + (CHOOSE h \in {MinHeight(n.children[i]) : i \in DOMAIN n.children} :
                 \A i \in DOMAIN n.children : h <= MinHeight(n.children[i]))

RECURSIVE SumLen(_)
SumLen(ns) == IF Len(ns) = 0 THEN 0 ELSE Len(Items(ns[1])) + SumLen(Tail(ns))

\* The rectangles a node bounds directly.
RectsOf(n) == IF n.is_leaf THEN n.entries ELSE [i \in DOMAIN n.children |-> n.children[i].mbr]

Occurrences(s, x) == Cardinality({i \in DOMAIN s : s[i] = x})

\* The leaf entries met along a traversal, concatenated.
RECURSIVE LeafEntries(_)
LeafEntries(t) ==
    IF Len(t) = 0 THEN <<>>
    ELSE (IF t[1].is_leaf THEN t[1].entries ELSE <<>>) \o LeafEntries(Tail(t))

Position(t, n) == CHOOSE i \in DOMAIN t : t[i].id = n.id

BuildEntered == pc # "idle"

----------------------------------------------------------------------------
\* C1: build on a tree with M < 2 fails with an invalid-parameter error
\* before any node is built, whatever the input: no node is ever created,
\* no root is set, the loop is never entered, and the only outcome is that error.
C1_InvalidMRejected ==
    (M < 2 /\ BuildEntered) =>
        /\ nodes = <<>>
        /\ root = None
        /\ pc \in {"called", "error"}
        /\ (pc = "error" => err = "InvalidParameterError")

\* C2: build with an empty rectangle list and M >= 2 completes without
\* error, leaves root = None, and preorder() then yields nothing.
C2_EmptyInputBuilds ==
    (M >= 2 /\ BuildEntered /\ Len(rectangles) = 0) =>
        /\ pc # "error"
        /\ root = None
        /\ (walked => traversal = <<>>)

\* C3: for N >= 1 rectangles and M >= 2, every pass of the while loop
\* returns strictly fewer nodes than it was given, build reaches its end,
\* and at its end the root is exactly one Node.
C3_BuildTerminates ==
    /\ [][(M >= 2 /\ pc = "loop" /\ pc' = "loop") => Len(nodes') < Len(nodes)]_vars
    /\ [](pc = "done" => Len(root) = 1)
    /\ ((pc = "called" /\ M >= 2 /\ Len(rectangles) >= 1) ~> (pc = "done"))

C3_Witness == pc = "done" /\ M >= 2 /\ loads >= 3 /\ Len(root) = 1

\* C4: with M >= 2 every node holds between 1 and M items, and a node of
\* the level just built that holds fewer than M closes its slice (the items
\* before and including it fill whole slices, or are all the items); the root
\* that wraps the last level is the only other node that may be undersized.
C4_FanOut ==
    M >= 2 =>
        /\ \A n \in LiveNodes : Len(Items(n)) >= 1 /\ Len(Items(n)) <= M
        /\ LET N == SumLen(nodes)
               slice_size == CeilDiv(N, CeilSqrt(CeilDiv(N, M)))
           IN \A k \in DOMAIN nodes :
                 Len(Items(nodes[k])) < M =>
                    \/ SumLen(SubSeq(nodes, 1, k)) = N
                    \/ SumLen(SubSeq(nodes, 1, k)) % slice_size = 0

C4_Witness ==
    /\ M >= 2
    /\ pc = "done"
    /\ \E k \in DOMAIN nodes : k < Len(nodes) /\ Len(Items(nodes[k])) < M
    /\ \E k \in DOMAIN nodes : Len(Items(nodes[k])) = M
    /\ Len(Items(root[1])) < M

\* C5: the MBR of every node is the componentwise min (xmin, ymin) and max
\* (xmax, ymax) over what it holds directly: every entry or child lies within
\* it (non-strictly) and each of its four bounds is attained; and a node, once
\* constructed, stays as it is (MBR included) in every later state.
C5_MbrTight ==
    /\ [](\A n \in LiveNodes :
            LET rs == RectsOf(n) IN
               /\ \A i \in DOMAIN rs :
                     /\ n.mbr[1] <= rs[i][1]
                     /\ n.mbr[2] >= rs[i][2]
                     /\ n.mbr[3] <= rs[i][3]
                     /\ n.mbr[4] >= rs[i][4]
               /\ \A c \in 1..4 : \E i \in DOMAIN rs : rs[i][c] = n.mbr[c])
    /\ [][LiveNodes \subseteq LiveNodes']_vars

C5_Witness ==
    /\ pc = "done"
    /\ ~root[1].is_leaf
    /\ \E n \in LiveNodes : n.is_leaf /\ Len(n.entries) >= 2
          /\ n.entries[1][1] # n.entries[2][1] /\ n.entries[1][3] # n.entries[2][3]

\* C6: preorder() of a built tree yields every node that was constructed
\* exactly once, the root first, the first child right after its parent and
\* the children of a node in their stored order; the entries of the yielded
\* leaves are the input rectangles, each as often as in the input.
C6_PreorderComplete ==
    (pc = "done" /\ walked) =>
        /\ \A i, j \in DOMAIN traversal : traversal[i].id = traversal[j].id => i = j
        /\ {traversal[i] : i \in DOMAIN traversal} = LiveNodes
        /\ {traversal[i].id : i \in DOMAIN traversal} = 1..(nextId - 1)
        /\ traversal[1] = root[1]
        /\ \A i \in DOMAIN traversal :
              LET n == traversal[i] IN
                 ~n.is_leaf =>
                    /\ Position(traversal, n.children[1]) = i + 1
                    /\ \A k \in 1..(Len(n.children) - 1) :
                          Position(traversal, n.children[k]) < Position(traversal, n.children[k + 1])
        /\ Len(LeafEntries(traversal)) = Len(rectangles)
        /\ \A i \in DOMAIN rectangles :
              Occurrences(LeafEntries(traversal), rectangles[i]) = Occurrences(rectangles, rectangles[i])

C6_Witness == pc = "done" /\ walked /\ Len(traversal) >= 7 /\ Len(rectangles) >= 10

\* C7: a tree built with M >= 2 is balanced: all leaves lie at the same
\* depth, and no internal node has both leaf and internal children.
C7_Balanced ==
    (pc = "done" /\ M >= 2) =>
        /\ Height(root[1]) = MinHeight(root[1])
        /\ \A n \in LiveNodes :
              ~n.is_leaf => \A i, j \in DOMAIN n.children :
                               n.children[i].is_leaf = n.children[j].is_leaf

C7_Witness == pc = "done" /\ M >= 2 /\ Height(root[1]) >= 4

\* C8: one _bulk_load application on N >= 1 items with M >= 2 returns
\* exactly ceil(N / M) nodes (N is the number of items the level holds).
C8_NodeCount ==
    (pc \in {"loop", "done"} /\ M >= 2) => Len(nodes) = CeilDiv(SumLen(nodes), M)

\* C9 (as claimed): with M >= 2 the height of the built tree is the number
\* of _bulk_load applications plus 1, also when the leaf level is one node.
C9_HeightIsLoadsPlusOne ==
    (pc = "done" /\ M >= 2) => Height(root[1]) = loads + 1

\* C9 (amended): the height of the built tree is the number of _bulk_load
\* applications plus 1 when N > M (the last level is wrapped by a new root),
\* and equals the number of applications, 1, when N <= M (the single leaf
\* is the root).
C9_Height ==
    (pc = "done" /\ M >= 2) =>
        IF Len(rectangles) > M
        THEN Height(root[1]) = loads + 1
        ELSE Height(root[1]) = loads /\ loads = 1 /\ root[1].is_leaf

C9_Witness ==
    /\ pc = "done"
    /\ M >= 2
    /\ Len(rectangles) <= M
    /\ Height(root[1]) = 1

\* C10: 10 rectangles with M = 3 give a leaf level of 4 leaves (at most 3
\* entries each, 10 in all), one more pass giving 2 internal nodes, a root
\* that wraps those 2 without a further pass, and a preorder of 7 nodes:
\* 1 root, 2 internal nodes, 4 leaves.
C10_TenRectsM3 ==
    (M = 3 /\ Len(rectangles) = 10) =>
        /\ (pc = "loop" /\ loads = 1) =>
              /\ Len(nodes) = 4
              /\ SumLen(nodes) = 10
              /\ \A k \in DOMAIN nodes : nodes[k].is_leaf /\ Len(nodes[k].entries) <= 3
        /\ (pc = "loop" /\ loads = 2) =>
              /\ Len(nodes) = 2
              /\ \A k \in DOMAIN nodes : ~nodes[k].is_leaf
        /\ pc = "loop" => loads <= 2
        /\ pc = "done" =>
              /\ loads = 2
              /\ root[1].children = nodes
              /\ Len(nodes) = 2
        /\ (pc = "done" /\ walked) =>
              /\ Len(traversal) = 7
              /\ Cardinality({i \in DOMAIN traversal : traversal[i].is_leaf}) = 4
              /\ Cardinality({i \in DOMAIN traversal : ~traversal[i].is_leaf}) = 3

C10_Witness == M = 3 /\ Len(rectangles) = 10 /\ pc = "done" /\ walked /\ Len(traversal) = 7

====
